---------------------------- MODULE Spec2Model ----------------------------
(***************************************************************************)
(* Model of analyze.py (sync-for-science/pilot-analysis): main() walks the *)
(* patients' SyncForScience directories, process_directory() counts the    *)
(* unique resource ids per resource type from the files the snapshot logs  *)
(* list, and main() then summarises every (base URI, resource type)        *)
(* collection of counts: mean, median, min, max and a histogram.           *)
(*                                                                         *)
(* Strings the code slices or matches (file names, request paths) are      *)
(* sequences of tokens: "LAB.json" is <<"LAB", ".", "json">> and           *)
(* "a/Observation?x" is <<"a", "/", "Observation", "?", "x">>.  A JSON     *)
(* object is a function from its keys; a key the object lacks is not in    *)
(* its DOMAIN.                                                             *)
(***************************************************************************)
EXTENDS Integers, Sequences, FiniteSets, TLC

\* ------------------------------------------------------------------ bounds
MaxPatients == 2   \* directories the glob of main() returns
MaxCount    == 6   \* largest per-patient count in StatsSpec
MaxLen      == 3   \* longest count collection in StatsSpec
MaxBinSize  == 3   \* largest --bin-size in StatsSpec
MaxB        == MaxCount + 2   \* cap on the histogram loop counter

\* --------------------------------------------------------------- constants
DefaultBinSize == 5

FILE_TYPE_MAPPING ==
    [t \in { <<"ALLERGY_INTOLERANCE">>, <<"DOCUMENT">>, <<"IMMUNIZATION">>,
             <<"LAB">>, <<"MEDICATION_ADMINISTRATION">>,
             <<"MEDICATION_DISPENSE">>, <<"MEDICATION_ORDER">>,
             <<"MEDICATION_STATEMENT">>, <<"PATIENT_DEMOGRAPHICS">>,
             <<"PROBLEMS">>, <<"PROCEDURE">>, <<"SMOKING_STATUS">>,
             <<"VITAL">> } |->
        CASE t = <<"ALLERGY_INTOLERANCE">>       -> "AllergyIntolerance"
          [] t = <<"DOCUMENT">>                  -> "DocumentReference"
          [] t = <<"IMMUNIZATION">>              -> "Immunization"
          [] t = <<"LAB">>                       -> "Observation"
          [] t = <<"MEDICATION_ADMINISTRATION">> -> "MedicationAdministration"
          [] t = <<"MEDICATION_DISPENSE">>       -> "MedicationDispense"
          [] t = <<"MEDICATION_ORDER">>          -> "MedicationOrder"
          [] t = <<"MEDICATION_STATEMENT">>      -> "MedicationStatement"
          [] t = <<"PATIENT_DEMOGRAPHICS">>      -> "Patient"
          [] t = <<"PROBLEMS">>                  -> "Condition"
          [] t = <<"PROCEDURE">>                 -> "Procedure"
          [] t = <<"SMOKING_STATUS">>            -> "Observation"
          [] t = <<"VITAL">>                     -> "Observation"]

\* ------------------------------------------------------------ dict helpers
EmptyDict == [k \in {} |-> {}]

\* d[k] = v of a Python dict: the key is created when absent.
Put(d, k, v) == [x \in (DOMAIN d) \cup {k} |-> IF x = k THEN v ELSE d[x]]

\* base_uri = None
None == <<>>

\* ------------------------------------------------- find_resource_files
\* filename.index('.'): 0 stands for the ValueError of a name with no period.
IndexOfPeriod(filename) ==
    LET ps == {i \in 1..Len(filename) : filename[i] = "."}
    IN  IF ps = {} THEN 0 ELSE CHOOSE i \in ps : \A j \in ps : i <= j

\* type_ = filename[:filename.index('.')]
TypeOf(filename) == SubSeq(filename, 1, IndexOfPeriod(filename) - 1)

\* re.match(BASE_URI_TEMPLATE.format(canonical), request): the greedy `.*/`
\* takes the longest prefix that ends in "/" and is followed by the canonical
\* resource type; what follows the type is optional and the end is not
\* anchored.  matched = FALSE stands for the None that re.match returns.
MatchBaseUri(canonical, request) ==
    LET at == {i \in 1..(Len(request) - 1) :
                  request[i] = "/" /\ request[i + 1] = canonical}
    IN  IF at = {} THEN [matched |-> FALSE, base_uri |-> None]
        ELSE [matched |-> TRUE,
              base_uri |-> SubSeq(request, 1,
                                  CHOOSE i \in at : \A j \in at : j <= i)]

\* What one log entry makes the generator do: "skip" (status is not 200),
\* "stop" (KeyError or ValueError, caught by the except around the whole
\* loop over the log, which then goes on to the next subdirectory),
\* "raise" (m is None, so m.group raises AttributeError, which nothing
\* catches) or "yield".
QueryOutcome(query) ==
    IF "status" \notin DOMAIN query THEN "stop"
    ELSE IF query.status # 200 THEN "skip"
    ELSE IF "response" \notin DOMAIN query THEN "stop"
    ELSE IF IndexOfPeriod(query.response) = 0 THEN "stop"
    ELSE IF TypeOf(query.response) \notin DOMAIN FILE_TYPE_MAPPING THEN "stop"
    ELSE IF "request" \notin DOMAIN query THEN "stop"
    ELSE IF ~MatchBaseUri(FILE_TYPE_MAPPING[TypeOf(query.response)],
                          query.request).matched THEN "raise"
    ELSE "yield"

\* -------------------------------------------------- process_directory
\* The ids that uniques[type_].update(...) adds for one parsed file, or the
\* KeyError of the first entry that lacks a key the generator expression
\* reads: 'resource', then 'resourceType' (the filter), then, for an entry
\* of the file's own resource type only, 'id'.
RECURSIVE EntryIds(_, _, _)
EntryIds(entries, k, canonical) ==
    IF k > Len(entries) THEN [error |-> "none", ids |-> {}]
    ELSE LET entry == entries[k] IN
         IF "resource" \notin DOMAIN entry
           THEN [error |-> "KeyError", ids |-> {}]
         ELSE IF "resourceType" \notin DOMAIN entry.resource
           THEN [error |-> "KeyError", ids |-> {}]
         ELSE IF entry.resource.resourceType # canonical
           THEN EntryIds(entries, k + 1, canonical)
         ELSE IF "id" \notin DOMAIN entry.resource
           THEN [error |-> "KeyError", ids |-> {}]
         ELSE LET rest == EntryIds(entries, k + 1, canonical)
              IN  [error |-> rest.error,
                   ids |-> IF rest.error = "none"
                             THEN {entry.resource.id} \cup rest.ids ELSE {}]

\* UniquesKey as a merge by canonical resource type would have it: one key
\* for all the file types that map to the same canonical type.
CanonicalKey(type_) ==
    CHOOSE t \in DOMAIN FILE_TYPE_MAPPING :
        FILE_TYPE_MAPPING[t] = FILE_TYPE_MAPPING[type_]

\* The key of `uniques` a file's ids are collected under.
UniquesKey(type_) == type_

\* The body of the loop of process_directory for one yielded file.
\* st = [uniques, base_uri, error].
Consume(st, type_, files, filename, resource_base_uri) ==
    LET st1 == IF st.base_uri = None
                 THEN [st EXCEPT !.base_uri = resource_base_uri] ELSE st
    IN  IF type_ = <<"PATIENT_DEMOGRAPHICS">> THEN st1
        ELSE IF filename \notin DOMAIN files
          THEN [st1 EXCEPT !.error = "IOError"]
        ELSE IF files[filename].kind = "garbage" THEN st1
        ELSE IF files[filename].kind # "dict"
          THEN [st1 EXCEPT !.error = "TypeError"]
        ELSE LET data == files[filename].obj
                 entries == IF "entry" \in DOMAIN data
                              THEN data.entry ELSE <<>>
                 got == EntryIds(entries, 1, FILE_TYPE_MAPPING[type_])
                 key == UniquesKey(type_)
                 old == IF key \in DOMAIN st1.uniques
                          THEN st1.uniques[key] ELSE {}
             IN  IF got.error # "none"
                   THEN [st1 EXCEPT !.error = got.error]
                   ELSE [st1 EXCEPT !.uniques = Put(@, key, old \cup got.ids)]

\* The entries of one log from the k-th on, each yielded file consumed
\* before the generator resumes.
RECURSIVE ScanLog(_, _, _, _)
ScanLog(queries, files, k, st) ==
    IF st.error # "none" \/ k > Len(queries) THEN st
    ELSE LET query == queries[k]
             outcome == QueryOutcome(query)
         IN  CASE outcome = "stop"  -> st
               [] outcome = "skip"  -> ScanLog(queries, files, k + 1, st)
               [] outcome = "raise" -> [st EXCEPT !.error = "AttributeError"]
               [] outcome = "yield" ->
                    ScanLog(queries, files, k + 1,
                            Consume(st, TypeOf(query.response), files,
                                    query.response,
                                    MatchBaseUri(
                                      FILE_TYPE_MAPPING[TypeOf(query.response)],
                                      query.request).base_uri))

\* One subdirectory of os.listdir(directory).
ScanSubdir(subdir, st) ==
    IF ~subdir.isdir THEN st
    ELSE IF subdir.log.kind \in {"absent", "garbage"} THEN st
    ELSE IF subdir.log.kind # "dict" THEN [st EXCEPT !.error = "TypeError"]
    ELSE IF "query" \notin DOMAIN subdir.log.obj THEN st
    ELSE ScanLog(subdir.log.obj.query, subdir.files, 1, st)

\* ScanDirectory as a snapshot selection would have it: of the
\* subdirectories from the k-th on, only the one whose log carries the
\* greatest timestamp is scanned.
ScanLatestOnly(dir, k, st) ==
    LET stamp(s) == IF dir[s].isdir /\ dir[s].log.kind = "dict"
                       /\ "timestamp" \in DOMAIN dir[s].log.obj
                      THEN dir[s].log.obj.timestamp ELSE 0
    IN  IF k > Len(dir) THEN st
        ELSE ScanSubdir(dir[CHOOSE s \in k..Len(dir) :
                              \A u \in k..Len(dir) : stamp(u) <= stamp(s)],
                        st)

\* The subdirectories from the k-th on.
RECURSIVE ScanDirectory(_, _, _)
ScanDirectory(dir, k, st) ==
    IF st.error # "none" \/ k > Len(dir) THEN st
    ELSE ScanDirectory(dir, k + 1, ScanSubdir(dir[k], st))

\* uniques, base_uri and the uncaught exception (if any) when the loop of
\* process_directory ends.
Uniques(dir) ==
    ScanDirectory(dir, 1,
                  [uniques |-> EmptyDict, base_uri |-> None, error |-> "none"])

\* return base_uri, {k: len(v) for k, v in uniques.items()}
process_directory(dir) ==
    LET st == Uniques(dir)
    IN  [error |-> st.error,
         base_uri |-> IF st.error = "none" THEN st.base_uri ELSE None,
         counts |-> IF st.error = "none"
                      THEN [t \in DOMAIN st.uniques |->
                               Cardinality(st.uniques[t])]
                      ELSE EmptyDict]


\* ------------------------------------------------------- the input tree
\* Bundle entries.
Obs(i) == [resource |-> [resourceType |-> "Observation", id |-> i]]

Imm(i) == [resource |-> [resourceType |-> "Immunization", id |-> i]]

Outcome == [resource |-> [resourceType |-> "OperationOutcome"]]

ObsNoId == [resource |-> [resourceType |-> "Observation"]]

\* What open() and json.load() find at a path.
Bundle(entries) ==
    [kind |-> "dict", obj |-> [resourceType |-> "Bundle", entry |-> entries]]

NoEntry == [kind |-> "dict", obj |-> [resourceType |-> "Bundle", total |-> 3]]

Garbage == [kind |-> "garbage"]

Null == [kind |-> "null"]

NoFiles == [f \in {} |-> Null]

FileName(t) == <<t, ".", "json">>

ReqA(canonical) == <<"a", "/", canonical>>

ReqB(canonical) == <<"b", "/", "fhir", "/", canonical, "?", "x">>

\* The path get_data.py records: relative, nothing before the resource type.
ReqRelative(canonical) == <<canonical, "/", "7">>

Query(status, filename, request) ==
    [status |-> status, response |-> filename, request |-> request]

\* A log entry and the file it names.
Item(query, content) ==
    [query |-> query, files |-> [f \in {query.response} |-> content]]

\* Files that parse as JSON objects.
GoodItems ==
    { Item(Query(200, FileName("LAB"), ReqA("Observation")),
           Bundle(<<Obs(1), Obs(2)>>)),
      Item(Query(200, FileName("LAB"), ReqB("Observation")),
           Bundle(<<Obs(1), Obs(1)>>)),
      Item(Query(200, FileName("VITAL"), ReqA("Observation")),
           Bundle(<<Obs(1), Outcome>>)),
      Item(Query(200, FileName("VITAL"), ReqB("Observation")),
           Bundle(<<Imm(2)>>)),
      Item(Query(200, FileName("IMMUNIZATION"), ReqB("Immunization")),
           Bundle(<<Imm(1)>>)),
      Item(Query(200, FileName("IMMUNIZATION"), ReqA("Immunization")),
           NoEntry),
      Item(Query(200, FileName("PATIENT_DEMOGRAPHICS"), ReqA("Patient")),
           NoEntry) }

LabGarbage == Item(Query(200, FileName("LAB"), ReqA("Observation")), Garbage)

LabMissing ==
    [query |-> Query(200, FileName("LAB"), ReqA("Observation")),
     files |-> NoFiles]

\* Entries the code passes over: an unparsable file, a name with no period,
\* a type FILE_TYPE_MAPPING lacks, a status that is not 200, no status.
SkippedItems ==
    { LabGarbage,
      Item(Query(200, <<"README">>, ReqA("Observation")), Garbage),
      Item(Query(200, <<"NOTES", ".", "txt">>, ReqA("Observation")), Garbage),
      Item(Query(404, FileName("LAB"), ReqA("Observation")),
           Bundle(<<Obs(2)>>)),
      [query |-> [response |-> FileName("LAB"), request |-> ReqA("Observation")],
       files |-> NoFiles] }

\* Entries that raise what nothing catches: JSON null (what get_data.py
\* dumps when a response is no JSON), a missing file, an entry of the
\* file's own type with no id, a request path with no base.
RaisingItems ==
    { Item(Query(200, FileName("LAB"), ReqA("Observation")), Null),
      LabMissing,
      Item(Query(200, FileName("VITAL"), ReqA("Observation")),
           Bundle(<<Obs(2), ObsNoId>>)),
      Item(Query(200, FileName("PATIENT_DEMOGRAPHICS"), ReqRelative("Patient")),
           Null) }

Items == GoodItems \cup SkippedItems \cup RaisingItems

Merge(f, g) ==
    [x \in (DOMAIN f) \cup (DOMAIN g) |-> IF x \in DOMAIN f THEN f[x] ELSE g[x]]

RECURSIVE FilesOf(_, _)
FilesOf(items, k) ==
    IF k > Len(items) THEN NoFiles
    ELSE Merge(items[k].files, FilesOf(items, k + 1))

\* A snapshot subdirectory whose log.json lists the items' queries.
Snapshot(timestamp, items) ==
    [isdir |-> TRUE,
     log |-> [kind |-> "dict",
              obj |-> [source |-> "HAPI FHIR", timestamp |-> timestamp,
                       query |-> [i \in 1..Len(items) |-> items[i].query]]],
     files |-> FilesOf(items, 1)]

\* Subdirectories with no usable log, and an entry that is no directory.
Odd ==
    { [isdir |-> FALSE, log |-> [kind |-> "absent"], files |-> NoFiles],
      [isdir |-> TRUE, log |-> [kind |-> "absent"], files |-> NoFiles],
      [isdir |-> TRUE, log |-> [kind |-> "garbage"], files |-> NoFiles],
      [isdir |-> TRUE, log |-> [kind |-> "null"], files |-> NoFiles],
      [isdir |-> TRUE, log |-> [kind |-> "dict", obj |-> [source |-> "HAPI FHIR"]],
       files |-> NoFiles] }

\* One snapshot whose log lists up to two entries.
OneSnapshot ==
    { <<sd>> : sd \in Odd }
    \cup { <<Snapshot(100, <<>>)>> }
    \cup { <<Snapshot(100, <<i>>)>> : i \in Items }
    \cup { <<Snapshot(100, <<i, j>>)>> : i \in Items, j \in Items }

\* The items that two-snapshot directories are built from.
SnapshotItems == GoodItems \cup {LabGarbage, LabMissing}

\* Two snapshots, listed in either order of their timestamps.
TwoSnapshots ==
    LET short(ts) ==
          { [isdir |-> TRUE, log |-> [kind |-> "absent"], files |-> NoFiles] }
          \cup { Snapshot(ts, <<i>>) : i \in SnapshotItems }
    IN  { <<s, t>> : s \in short(100), t \in short(200) }
        \cup { <<s, t>> : s \in short(200), t \in short(100) }

\* The SyncForScience directories a patient may have.
Directories == OneSnapshot \cup TwoSnapshots


\* ------------------------------------------------------------ statistics
RECURSIVE Sum(_)
Sum(xs) == IF xs = <<>> THEN 0 ELSE xs[1] + Sum(Tail(xs))

\* x put before the first greater element of an ascending list.
RECURSIVE Insert(_, _)
Insert(x, xs) ==
    IF xs = <<>> THEN <<x>>
    ELSE IF x <= xs[1] THEN <<x>> \o xs
    ELSE <<xs[1]>> \o Insert(x, Tail(xs))

\* counts.sort()
RECURSIVE Sort(_)
Sort(xs) == IF xs = <<>> THEN <<>> ELSE Insert(xs[1], Sort(Tail(xs)))

\* MedianOf taking the lower middle element of an even-sized list.
LowerMedian(sorted) == sorted[((Len(sorted) - 1) \div 2) + 1]

\* counts[n // 2]; Python's index n // 2 is TLA+'s n \div 2 + 1.
MedianOf(sorted) == sorted[(Len(sorted) \div 2) + 1]

\* The summary dict before the histogram loop; sum(counts) / n is kept as
\* the fraction num / den.
SummaryOf(sorted) ==
    [mean |-> [num |-> Sum(sorted), den |-> Len(sorted)],
     median |-> MedianOf(sorted),
     min |-> sorted[1],
     max |-> sorted[Len(sorted)],
     histogram |-> <<>>]

\* InBin with the upper edge of the bin taken in.
InBinInclusive(xs, bin, size) ==
    Cardinality({i \in 1..Len(xs) :
                    bin * size <= xs[i] /\ xs[i] <= (bin + 1) * size})

\* sum(b * bin_size <= x < (b + 1) * bin_size for x in counts)
InBin(xs, bin, size) ==
    Cardinality({i \in 1..Len(xs) :
                    bin * size <= xs[i] /\ xs[i] < (bin + 1) * size})

\* SkipBin with empty bins kept.
NeverSkip(in_bin) == FALSE

\* `if not in_bin`: an empty bin is passed over, not appended.
SkipBin(in_bin) == in_bin = 0

\* ------------------------------------------------------------------ state
VARIABLES
    pc,            \* where main() is: scan, merge, summarize, hist, done, aborted
    bin_size,      \* args.bin_size
    npatients,     \* directories of the glob processed so far
    directory,     \* the directory last handed to process_directory
    returned,      \* what process_directory did with it
    total_counts,  \* <<base_uri, type_>> -> list of counts
    results,       \* <<base_uri, type_>> -> finished summary
    key,           \* the <<base_uri, type_>> being summarised
    counts,        \* its sorted counts
    summary,       \* its summary, the histogram grown so far
    b              \* the bin the histogram loop is at

vars == <<pc, bin_size, npatients, directory, returned, total_counts,
          results, key, counts, summary, b>>

NoSummary == [mean |-> [num |-> 0, den |-> 1], median |-> 0, min |-> 0,
              max |-> 0, histogram |-> <<>>]

NotReturned == [error |-> "none", base_uri |-> None, counts |-> EmptyDict]

Init ==
    /\ pc = "scan"
    /\ bin_size = DefaultBinSize
    /\ npatients = 0
    /\ directory = <<>>
    /\ returned = NotReturned
    /\ total_counts = EmptyDict
    /\ results = EmptyDict
    /\ key = <<>>
    /\ counts = <<>>
    /\ summary = NoSummary
    /\ b = 0

\* AppendCounts padding with 0 every collection the patient has no count for.
AppendCountsPadded(tc, base_uri, dir_counts) ==
    [k \in (DOMAIN tc) \cup {<<base_uri, t>> : t \in DOMAIN dir_counts} |->
        (IF k \in DOMAIN tc THEN tc[k] ELSE <<>>)
        \o <<IF k[1] = base_uri /\ k[2] \in DOMAIN dir_counts
               THEN dir_counts[k[2]] ELSE 0>>]

\* total_counts[base_uri][type_].append(count) for every item of dir_counts
AppendCounts(tc, base_uri, dir_counts) ==
    [k \in (DOMAIN tc) \cup {<<base_uri, t>> : t \in DOMAIN dir_counts} |->
        IF k[1] = base_uri /\ k[2] \in DOMAIN dir_counts
          THEN (IF k \in DOMAIN tc THEN tc[k] ELSE <<>>)
               \o <<dir_counts[k[2]]>>
          ELSE tc[k]]

\* process_directory on every directory of the input tree.
Processed == [d \in Directories |-> process_directory(d)]

\* base_uri, dir_counts = process_directory(directory), for the next
\* directory of the glob.  An exception that process_directory lets through
\* ends main() with no result.
ProcessDirectory(dir) ==
    /\ pc = "scan"
    /\ npatients < MaxPatients
    /\ directory' = dir
    /\ returned' = Processed[dir]
    /\ npatients' = npatients + 1
    /\ pc' = IF returned'.error = "none" THEN "merge" ELSE "aborted"
    /\ UNCHANGED <<bin_size, total_counts, results, key, counts, summary, b>>

\* The loop over dir_counts.items(); directory, base_uri and dir_counts are
\* dead from here to the next turn of the outer loop.
MergeCounts ==
    /\ pc = "merge"
    /\ total_counts' = AppendCounts(total_counts, returned.base_uri,
                                    returned.counts)
    /\ directory' = <<>>
    /\ returned' = NotReturned
    /\ pc' = "scan"
    /\ UNCHANGED <<bin_size, npatients, results, key, counts, summary, b>>

\* The glob is exhausted.
EndScan ==
    /\ pc = "scan"
    /\ pc' = "summarize"
    /\ UNCHANGED <<bin_size, npatients, directory, returned, total_counts,
                   results, key, counts, summary, b>>

\* The next (base_uri, type_) of the two nested loops over total_counts:
\* the list is sorted in place and the summary started.
Summarize ==
    /\ pc = "summarize"
    /\ DOMAIN total_counts # DOMAIN results
    /\ LET k == CHOOSE x \in (DOMAIN total_counts) \ (DOMAIN results) : TRUE
           sorted == Sort(total_counts[k])
       IN  /\ key' = k
           /\ counts' = sorted
           /\ total_counts' = [total_counts EXCEPT ![k] = sorted]
           /\ summary' = SummaryOf(sorted)
    /\ b' = 0
    /\ pc' = "hist"
    /\ UNCHANGED <<bin_size, npatients, directory, returned, results>>

\* One turn of the `while True` of the histogram.
HistStep ==
    /\ pc = "hist"
    /\ b < MaxB
    /\ LET in_bin == InBin(counts, b, bin_size)
           bin == [bin_start |-> b * bin_size,
                   bin_end |-> (b + 1) * bin_size - 1,
                   count |-> in_bin]
           grown == [summary EXCEPT !.histogram = Append(@, bin)]
       IN  IF SkipBin(in_bin)
             THEN /\ b' = b + 1
                  /\ UNCHANGED <<pc, summary, results, key, counts>>
           ELSE IF (b + 1) * bin_size > counts[Len(counts)]
             THEN /\ results' = Put(results, key, grown)
                  /\ pc' = "summarize"
                  /\ b' = 0
                  /\ summary' = NoSummary
                  /\ key' = <<>>
                  /\ counts' = <<>>
           ELSE /\ summary' = grown
                /\ b' = b + 1
                /\ UNCHANGED <<pc, results, key, counts>>
    /\ UNCHANGED <<bin_size, npatients, directory, returned, total_counts>>

\* return results
Return ==
    /\ pc = "summarize"
    /\ DOMAIN total_counts = DOMAIN results
    /\ pc' = "done"
    /\ UNCHANGED <<bin_size, npatients, directory, returned, total_counts,
                   results, key, counts, summary, b>>

Next ==
    \/ \E dir \in Directories : ProcessDirectory(dir)
    \/ MergeCounts
    \/ EndScan
    \/ Summarize
    \/ HistStep
    \/ Return

Spec == Init /\ [][Next]_vars

\* ---------------------------------------------- statistics on their own
\* Collections of non-negative counts, as main() appends them.
Collections ==
    UNION { [1..n -> 0..MaxCount] : n \in 1..MaxLen }

\* --bin-size takes any int.
BinSizes == (0 - 1)..MaxBinSize

StatsKey == << <<"a", "/">>, <<"LAB">> >>

\* main() after the scan, with one collection to summarise.
StatsInit ==
    /\ pc = "summarize"
    /\ bin_size \in BinSizes
    /\ \E c \in Collections :
          /\ total_counts = [k \in {StatsKey} |-> c]
          /\ npatients = Len(c)
    /\ directory = <<>>
    /\ returned = NotReturned
    /\ results = EmptyDict
    /\ key = <<>>
    /\ counts = <<>>
    /\ summary = NoSummary
    /\ b = 0

StatsNext == Summarize \/ HistStep \/ Return

StatsSpec == StatsInit /\ [][StatsNext]_vars


\* ================================================================ claims
\* What the claims say of a directory, stated without the loops above.

\* process_directory has just been called on `directory`.
Called == pc \in {"merge", "aborted"}

\* The list under 'query' of a subdirectory's log, when it has one.
QueriesOf(subdir) ==
    IF subdir.isdir /\ subdir.log.kind = "dict"
       /\ "query" \in DOMAIN subdir.log.obj
      THEN subdir.log.obj.query ELSE <<>>

\* The places <<subdirectory, log entry>> whose file reaches
\* process_directory: no entry before it in its log stopped the generator.
Yielded(dir) ==
    UNION { { <<s, i>> : i \in { n \in 1..Len(QueriesOf(dir[s])) :
                /\ \A j \in 1..n :
                      QueryOutcome(QueriesOf(dir[s])[j]) \in {"skip", "yield"}
                /\ QueryOutcome(QueriesOf(dir[s])[n]) = "yield" } }
            : s \in 1..Len(dir) }

NameAt(dir, p) == QueriesOf(dir[p[1]])[p[2]].response

\* The yielded files that parsed as JSON objects.
Counted(dir) ==
    { p \in Yielded(dir) :
        /\ NameAt(dir, p) \in DOMAIN dir[p[1]].files
        /\ dir[p[1]].files[NameAt(dir, p)].kind = "dict" }

\* Those of type t.
CountedFiles(dir, t) == { p \in Counted(dir) : TypeOf(NameAt(dir, p)) = t }

EntriesAt(dir, p) ==
    LET data == dir[p[1]].files[NameAt(dir, p)].obj
    IN  IF "entry" \in DOMAIN data THEN data.entry ELSE <<>>

\* The ids of the entries of the canonical type that carry an id.
WantedIds(entries, canonical) ==
    { entries[i].resource.id :
        i \in { n \in 1..Len(entries) :
                  /\ "resource" \in DOMAIN entries[n]
                  /\ "resourceType" \in DOMAIN entries[n].resource
                  /\ entries[n].resource.resourceType = canonical
                  /\ "id" \in DOMAIN entries[n].resource } }

IdsOfType(dir, t) ==
    UNION { WantedIds(EntriesAt(dir, p), FILE_TYPE_MAPPING[t]) :
            p \in CountedFiles(dir, t) }

CountedTypes(dir) ==
    { TypeOf(NameAt(dir, p)) : p \in Counted(dir) }
    \ {<<"PATIENT_DEMOGRAPHICS">>}

\* ---------------------------------------------------------------- C1
\* C1 (as claimed): no per-file or per-patient problem aborts the run; with
\* a missing or unparsable log, a missing or non-object resource file, an
\* entry lacking a field or a request path that does not match, main()
\* still returns a result.
C1_RunNeverAborts == pc # "aborted"

\* ---------------------------------------------------------------- C2
\* C2 (as claimed): files of one patient that map to the same canonical
\* resource type are merged: the patient has a single count for the
\* canonical type and it is the size of the union of the files' id sets, so
\* an id in both a LAB and a VITAL file adds 1, not 2.
C2_CanonicalMerge ==
    pc = "merge" =>
      \A c \in {FILE_TYPE_MAPPING[t] : t \in DOMAIN returned.counts} :
        LET ks == {t \in DOMAIN returned.counts : FILE_TYPE_MAPPING[t] = c}
        IN  /\ Cardinality(ks) = 1
            /\ \A t \in ks :
                 returned.counts[t] =
                   Cardinality(UNION {IdsOfType(directory, u) : u \in ks})

\* C2 (amended): the id sets are unioned per file-level resource type: the
\* patient has one count for every type_ (LAB, VITAL, ...) that has a parsed
\* file, the number of distinct ids of the canonical type over all files of
\* that type_ (listed twice, or in several snapshots); files of different
\* type_ stay under separate keys even when they map to one canonical type.
C2_UnionPerFileType ==
    pc = "merge" =>
      /\ DOMAIN returned.counts = CountedTypes(directory)
      /\ \A t \in DOMAIN returned.counts :
            returned.counts[t] = Cardinality(IdsOfType(directory, t))

\* A patient whose LAB and VITAL files share an id, the LAB file holding
\* two ids: both keys are present, with counts 2 and 1.
C2_Witness ==
    /\ pc = "merge"
    /\ {<<"LAB">>, <<"VITAL">>} \subseteq DOMAIN returned.counts
    /\ IdsOfType(directory, <<"LAB">>) \cap IdsOfType(directory, <<"VITAL">>)
         # {}
    /\ returned.counts[<<"LAB">>] = 2
    /\ returned.counts[<<"VITAL">>] = 1

\* ---------------------------------------------------------------- C3
Stamped(subdir) ==
    /\ subdir.isdir
    /\ subdir.log.kind = "dict"
    /\ "timestamp" \in DOMAIN subdir.log.obj

TwoStamped(dir) ==
    /\ Len(dir) = 2
    /\ Stamped(dir[1])
    /\ Stamped(dir[2])
    /\ dir[1].log.obj.timestamp # dir[2].log.obj.timestamp

Latest(dir) ==
    IF dir[1].log.obj.timestamp > dir[2].log.obj.timestamp
      THEN dir[1] ELSE dir[2]

Older(dir) ==
    IF dir[1].log.obj.timestamp > dir[2].log.obj.timestamp
      THEN dir[2] ELSE dir[1]

\* C3 (as claimed): of several snapshot subdirectories only the one with the
\* greatest manifest timestamp is processed; what is only in an older
\* snapshot never contributes.
C3_LatestSnapshotOnly ==
    (pc = "merge" /\ TwoStamped(directory)) =>
      /\ returned.error = process_directory(<<Latest(directory)>>).error
      /\ returned.counts = process_directory(<<Latest(directory)>>).counts

IdsIn(st, t) == IF t \in DOMAIN st.uniques THEN st.uniques[t] ELSE {}

\* C3 (amended): every snapshot subdirectory with a readable log is
\* processed, whatever its timestamp: a patient's count for a type is the
\* size of the union of the id sets of all its snapshots, so what is only in
\* an older snapshot does contribute.
C3_AllSnapshotsUnioned ==
    (pc = "merge" /\ Len(directory) = 2) =>
      LET one == Uniques(<<directory[1]>>)
          two == Uniques(<<directory[2]>>)
      IN  /\ one.error = "none"
          /\ two.error = "none"
          /\ DOMAIN returned.counts = (DOMAIN one.uniques) \cup (DOMAIN two.uniques)
          /\ \A t \in DOMAIN returned.counts :
                returned.counts[t] = Cardinality(IdsIn(one, t) \cup IdsIn(two, t))

\* Two snapshots with timestamps 100 and 200, the older one holding an id
\* the newer lacks, which is counted.
C3_Witness ==
    /\ pc = "merge"
    /\ TwoStamped(directory)
    /\ \E t \in DOMAIN returned.counts :
          /\ IdsIn(Uniques(<<Older(directory)>>), t)
               \ IdsIn(Uniques(<<Latest(directory)>>), t) # {}
          /\ returned.counts[t]
               > Cardinality(IdsIn(Uniques(<<Latest(directory)>>), t))

\* ---------------------------------------------------------------- C4
\* A directory of one snapshot whose log lists one file, which is yielded,
\* is no patient-demographics file and parses as a JSON object.
OneBundle(dir) ==
    /\ Len(dir) = 1
    /\ Len(QueriesOf(dir[1])) = 1
    /\ Yielded(dir) = {<<1, 1>>}
    /\ TypeOf(NameAt(dir, <<1, 1>>)) # <<"PATIENT_DEMOGRAPHICS">>
    /\ CountedFiles(dir, TypeOf(NameAt(dir, <<1, 1>>))) = {<<1, 1>>}

\* C4 (as claimed): for a bundle-shaped file the count is the number of
\* distinct ids among the entries of the file's canonical type that carry an
\* id; an entry with no id is left out and raises nothing.
C4_CountsDistinctIds ==
    (Called /\ OneBundle(directory)) =>
      LET t == TypeOf(NameAt(directory, <<1, 1>>))
      IN  /\ returned.error = "none"
          /\ returned.counts =
               [u \in {t} |->
                  Cardinality(WantedIds(EntriesAt(directory, <<1, 1>>),
                                        FILE_TYPE_MAPPING[t]))]

\* ---------------------------------------------------------------- C5
\* The i-th entry of a log names a file the code is to pass over: a name
\* with no period or a type FILE_TYPE_MAPPING lacks, or unparsable content.
Skippable(subdir, i) ==
    LET query == QueriesOf(subdir)[i]
    IN  /\ "status" \in DOMAIN query
        /\ query.status = 200
        /\ "response" \in DOMAIN query
        /\ \/ IndexOfPeriod(query.response) = 0
           \/ TypeOf(query.response) \notin DOMAIN FILE_TYPE_MAPPING
           \/ /\ QueryOutcome(query) = "yield"
              /\ query.response \in DOMAIN subdir.files
              /\ subdir.files[query.response].kind = "garbage"

\* The subdirectory with only the i-th entry in its log.
Only(subdir, i) ==
    [subdir EXCEPT !.log.obj.query = <<QueriesOf(subdir)[i]>>]

\* C5 (as claimed): a skippable file contributes nothing and the other
\* status-200 file of the same log, listed before or after it, still
\* contributes the count it has on its own.
C5_SiblingsUndisturbed ==
    (Called /\ Len(directory) = 1 /\ Len(QueriesOf(directory[1])) = 2) =>
      \A i \in 1..2 :
        LET alone == process_directory(<<Only(directory[1], 3 - i)>>)
        IN  (/\ Skippable(directory[1], i)
             /\ ~Skippable(directory[1], 3 - i)
             /\ alone.error = "none")
            => /\ returned.error = "none"
               /\ returned.counts = alone.counts


\* ---------------------------------------------------------------- C6
Range(xs) == {xs[i] : i \in 1..Len(xs)}

C6_Bounded ==
    \A k \in DOMAIN total_counts :
        Len(total_counts[k]) >= 1 /\ Len(total_counts[k]) <= npatients

\* The merge of one patient's counts.
C6_Step ==
    (pc = "merge" /\ pc' = "scan") =>
      LET old(k) == IF k \in DOMAIN total_counts THEN total_counts[k] ELSE <<>>
          grown == {k \in DOMAIN total_counts' :
                      Len(total_counts'[k]) > Len(old(k))}
      IN  /\ DOMAIN total_counts \subseteq DOMAIN total_counts'
          /\ \A k \in DOMAIN total_counts' :
                /\ Len(total_counts'[k]) <= Len(old(k)) + 1
                /\ SubSeq(total_counts'[k], 1, Len(old(k))) = old(k)
          /\ \A k1 \in grown : \A k2 \in grown : k1[1] = k2[1]
          /\ {k[2] : k \in grown} = CountedTypes(directory)
          /\ \A k \in grown :
                total_counts'[k][Len(total_counts'[k])]
                  = Cardinality(IdsOfType(directory, k[2]))

\* C6: a patient adds at most one value to any (endpoint, resource type)
\* collection and only to collections of one endpoint, so no collection is
\* longer than the number of patients processed; a patient with no parsed
\* file of a type adds nothing to that type's collection (no 0 is padded),
\* and a patient whose file of the type has no matching entry adds 0.
C6_MergeRule == [](C6_Bounded) /\ [][C6_Step]_vars

\* Two patients processed: a collection holds the 0 of a file without
\* matching entries, and a collection has one value only, the other patient
\* being absent from it.
C6_Witness ==
    /\ pc = "scan"
    /\ npatients = 2
    /\ \E k \in DOMAIN total_counts :
          Len(total_counts[k]) = 2 /\ 0 \in Range(total_counts[k])
    /\ \E k \in DOMAIN total_counts : Len(total_counts[k]) = 1

\* ---------------------------------------------------------------- C7
Within(xs, lo, hi) ==
    Cardinality({j \in 1..Len(xs) : lo <= xs[j] /\ xs[j] <= hi})

BinsOk(hist, xs, w) ==
    \A i \in 1..Len(hist) :
        LET bin == hist[i]
            idx == bin.bin_start \div w
        IN  /\ idx >= 0
            /\ bin.bin_start = idx * w
            /\ bin.bin_end = (idx + 1) * w - 1
            /\ bin.count = Within(xs, bin.bin_start, bin.bin_end)
            /\ i > 1 => hist[i - 1].bin_end < bin.bin_start

RECURSIVE SumCounts(_)
SumCounts(hist) ==
    IF hist = <<>> THEN 0 ELSE hist[1].count + SumCounts(Tail(hist))

\* C7: for a non-empty collection of non-negative counts and a positive bin
\* width w, every emitted bin has bin_start = b*w, bin_end = (b+1)*w - 1 and
\* the number of values in [bin_start, bin_end] as its count, the bins are
\* disjoint with increasing b, and the counts of a finished histogram add up
\* to the length of the collection.
C7_HistogramBins ==
    bin_size > 0 =>
      /\ pc = "hist" => BinsOk(summary.histogram, counts, bin_size)
      /\ \A k \in DOMAIN results :
            /\ BinsOk(results[k].histogram, total_counts[k], bin_size)
            /\ SumCounts(results[k].histogram) = Len(total_counts[k])

\* A finished histogram of several bins, one of them holding two values.
C7_Witness ==
    /\ pc = "done"
    /\ bin_size > 1
    /\ \E k \in DOMAIN results :
          /\ Len(results[k].histogram) >= 2
          /\ \E i \in 1..Len(results[k].histogram) :
                results[k].histogram[i].count >= 2

\* ---------------------------------------------------------------- C8
BinIndexes(hist, w) == {hist[i].bin_start \div w : i \in 1..Len(hist)}

\* C8 (as claimed): the histogram is a contiguous partition of [0, max]:
\* every bin b from 0 to floor(max/w) is emitted, empty ones included, each
\* starting one past the end of the bin before it.
C8_ContiguousPartition ==
    bin_size > 0 =>
      \A k \in DOMAIN results :
        LET hist == results[k].histogram
        IN  /\ BinIndexes(hist, bin_size) = 0..(results[k].max \div bin_size)
            /\ \A i \in 2..Len(hist) :
                  hist[i].bin_start = hist[i - 1].bin_end + 1

\* C8 (amended): the histogram holds exactly the bins b of 0..floor(max/w)
\* that contain at least one value; empty bins are always left out, whatever
\* the configuration, so a bin need not start one past the end of the bin
\* before it.
C8_OnlyNonEmptyBins ==
    bin_size > 0 =>
      \A k \in DOMAIN results :
        LET hist == results[k].histogram
            xs == total_counts[k]
        IN  /\ BinIndexes(hist, bin_size) =
                 { idx \in 0..(results[k].max \div bin_size) :
                     Within(xs, idx * bin_size, (idx + 1) * bin_size - 1) > 0 }
            /\ \A i \in 1..Len(hist) : hist[i].count >= 1

\* A finished histogram with a gap between two emitted bins.
C8_Witness ==
    /\ pc = "done"
    /\ bin_size > 0
    /\ \E k \in DOMAIN results :
          \E i \in 2..Len(results[k].histogram) :
             results[k].histogram[i].bin_start
               > results[k].histogram[i - 1].bin_end + 1

\* ---------------------------------------------------------------- C9
Occurrences(xs, v) == Cardinality({j \in 1..Len(xs) : xs[j] = v})

StatsOk(s, xs) ==
    LET n == Len(xs)
    IN  /\ n > 0
        /\ s.min \in Range(xs) /\ \A j \in 1..n : s.min <= xs[j]
        /\ s.max \in Range(xs) /\ \A j \in 1..n : xs[j] <= s.max
        /\ s.median \in Range(xs)
        /\ Cardinality({j \in 1..n : xs[j] < s.median}) <= n \div 2
        /\ Cardinality({j \in 1..n : xs[j] <= s.median}) > n \div 2
        /\ s.mean.den = n
        /\ s.mean.num = Sum(xs)
        /\ s.min <= s.median /\ s.median <= s.max
        /\ n * s.min <= s.mean.num /\ s.mean.num <= n * s.max

C9_Summaries ==
    /\ \A k \in DOMAIN total_counts : Len(total_counts[k]) > 0
    /\ pc = "hist" => StatsOk(summary, total_counts[key])
    /\ \A k \in DOMAIN results : StatsOk(results[k], total_counts[k])

\* The sort that starts a summary: the same values, ascending.
C9_Sorted ==
    (pc = "summarize" /\ pc' = "hist") =>
      /\ Len(counts') = Len(total_counts[key'])
      /\ \A v \in Range(total_counts[key']) \cup Range(counts') :
            Occurrences(counts', v) = Occurrences(total_counts[key'], v)
      /\ \A i \in 2..Len(counts') : counts'[i - 1] <= counts'[i]

\* C9: for every non-empty collection, min and max are the least and the
\* greatest value, the median is the element at index floor(n/2) of the
\* values sorted ascending (the upper middle one for even n), mean = sum/n,
\* min <= median <= max and n*min <= sum <= n*max; no summary is computed
\* over an empty collection.
C9_SummaryStatistics == [](C9_Summaries) /\ [][C9_Sorted]_vars

\* The summary of a collection of two different values, given unsorted:
\* the median is the greater one.
C9_Witness ==
    /\ pc = "done"
    /\ \E k \in DOMAIN results :
          /\ Len(total_counts[k]) = 2
          /\ results[k].min < results[k].max
          /\ results[k].median = results[k].max
          /\ 2 * results[k].min < results[k].mean.num
          /\ results[k].mean.num < 2 * results[k].max

\* --------------------------------------------------------------- C10
\* C10 (as claimed): for any integer bin width the histogram loop stops
\* after at most ceil((max+1)/w) bin evaluations (never more than max+1):
\* a bin that starts above max is never reached.
C10_LoopStopsAtMax ==
    pc = "hist" =>
      /\ b * bin_size <= counts[Len(counts)]
      /\ b <= counts[Len(counts)]

=============================================================================
